---------------------------- MODULE Spec2Model ----------------------------
(***************************************************************************)
(* Model of the AirGo panel client, src/api/airgo/airgo.go.                *)
(*                                                                         *)
(* The client polls a panel for a node descriptor and a user list with     *)
(* conditional requests (If-None-Match / ETag), translates the descriptor  *)
(* into the runtime's node configuration (ParseAirGoNodeInfo), and reports *)
(* online users grouped by user id.                                        *)
(*                                                                         *)
(* Conventions                                                             *)
(*  - a Go pointer or slice that may be nil is a sequence of length 0      *)
(*    (nil) or 1 (the value pointed to);                                   *)
(*  - a Go map read of an absent key yields the zero value, so eTags is a  *)
(*    total function whose value "" stands for "absent or empty";          *)
(*  - a float64 speed limit in Mbps is the record [whole, micro] standing  *)
(*    for whole + micro/10^6.                                              *)
(***************************************************************************)
EXTENDS Integers, Sequences, FiniteSets, TLC

VARIABLES
    c,               \* the APIClient: NodeType, NodeID, SpeedLimit
    eTags,           \* APIClient.eTags
    op,              \* name of the last operation that returned
    res,             \* the *resty.Response that operation received
    ret,             \* what it returned: [val, err]
    n,               \* the NodeInfoResponse handed to ParseAirGoNodeInfo
    onlineUserList,  \* the argument of ReportNodeOnlineUsers
    sent,            \* the body ReportNodeOnlineUsers handed to postRequest
    panel,           \* the panel's current ETag per resource
    fetched          \* per resource: fetches since the panel last changed it,
                     \* counted up to 2

vars == <<c, eTags, op, res, ret, n, onlineUserList, sent, panel, fetched>>

-----------------------------------------------------------------------------
(* Bounds of the model *)

MaxMbps == 1        \* per-node / per-user overrides range over 0..MaxMbps
MaxMicro == 8       \* fractional part of the default limit, in 10^-6 Mbps
MaxUsers == 2       \* length of a decoded user list
MaxObs == 3         \* length of an online-user observation list

(* Program constants *)

StatusNotModified == 304
StatusOK == 200
BitsPerMbit == 1000000
BitsPerByte == 8

Keys == {"node", "userlist"}
ETagValues == {"", "W/a", "W/b"}
NodeNotModified == "NodeNotModified"
UserNotModified == "UserNotModified"

-----------------------------------------------------------------------------
(* Values *)

Float(w, m) == [whole |-> w, micro |-> m]

\* uint64((f * 1000000) / 8) for a float64 f >= 0
BytesPerSecFloat(f) == (f.whole * BitsPerMbit + f.micro) \div BitsPerByte

\* uint64((i * 1000000) / 8) for an int64 i > 0
BytesPerSecInt(i) == (i * BitsPerMbit) \div BitsPerByte

Limits == (0 .. MaxMbps) \cup {100}
Defaults == {Float(w, m) : w \in {0, 50}, m \in 0 .. MaxMicro}

Client(nodeType, nodeID, speedLimit) ==
    [NodeType |-> nodeType, NodeID |-> nodeID, SpeedLimit |-> speedLimit]

Clients == {Client("V2ray", 1, d) : d \in {Float(0, 0), Float(50, 0)}}
           \cup {Client("", 0, Float(0, 0))}

Protocols == {"vless", "Vless", "VLESS", "vmess", "Vmess", "VMESS",
              "shadowsocks", "Shadowsocks", "SHADOWSOCKS", "trojan", ""}
Securities == {"none", "", "tls", "reality"}
Networks == {"tcp", "ws", "grpc", ""}
Types == {"http", "none", ""}

\* a NodeInfoResponse; `filled` chooses between a descriptor whose
\* pass-through fields are all set and one where they are all zero
Descriptor(protocol, security, network, type, limit, filled) ==
    [Protocol |-> protocol, Security |-> security, Network |-> network,
     Type |-> type, NodeSpeedLimit |-> limit,
     Port |-> IF filled THEN 443 ELSE 0,
     Sni |-> IF filled THEN "sni.example" ELSE "",
     Dest |-> IF filled THEN "dest.example:443" ELSE "",
     PrivateKey |-> IF filled THEN "privkey" ELSE "",
     Path |-> IF filled THEN "/path" ELSE "",
     Host |-> IF filled THEN "host.example" ELSE "",
     ServiceName |-> IF filled THEN "svc" ELSE "",
     VlessFlow |-> IF filled THEN "xtls-rprx-vision" ELSE "",
     Scy |-> IF filled THEN "aes-128-gcm" ELSE "",
     ServerKey |-> IF filled THEN "serverkey" ELSE ""]

Descriptors ==
    {Descriptor(p, s, nw, t, l, f) :
        p \in Protocols, s \in Securities, nw \in Networks, t \in Types,
        l \in {0, 100}, f \in BOOLEAN}

\* the zero value of api.NodeInfo
ZeroNodeInfo ==
    [EnableVless |-> FALSE, VlessFlow |-> "", NodeType |-> "", NodeID |-> 0,
     Port |-> 0, SpeedLimit |-> 0, AlterID |-> 0, TransportProtocol |-> "",
     EnableTLS |-> FALSE, Path |-> "", Host |-> "", CypherMethod |-> "",
     ServerKey |-> "", ServiceName |-> "", EnableREALITY |-> FALSE,
     REALITYConfig |-> <<>>, Header |-> <<>>]

\* the zero value of api.REALITYConfig
ZeroREALITYConfig ==
    [Dest |-> "", ProxyProtocolVer |-> 0, ServerNames |-> <<>>,
     PrivateKey |-> "", MinClientVer |-> "", MaxClientVer |-> "",
     MaxTimeDiff |-> 0, ShortIds |-> <<>>]

NoRet == [val |-> <<>>, err |-> ""]
NoRes == [err |-> FALSE, status |-> 0, etag |-> "", body |-> <<>>]


-----------------------------------------------------------------------------
(* Conditional-fetch cache *)

IfNoneMatch_NodeKey(tags, key) == tags["node"]

\* the request header If-None-Match: c.eTags[key]
IfNoneMatch(tags, key) == tags[key]

updateETag_NoEmptyCheck(tags, r, key) ==
    IF r.etag # tags[key]
    THEN [tags EXCEPT ![key] = r.etag]
    ELSE tags

\* updateETag: the table after a response r for resource key
updateETag(tags, r, key) ==
    IF r.etag # "" /\ r.etag # tags[key]
    THEN [tags EXCEPT ![key] = r.etag]
    ELSE tags

-----------------------------------------------------------------------------
(* Config translator *)

calculateSpeedLimit_ZeroIsLimit(nodeSpeedLimit, defaultSpeedLimit) ==
    IF nodeSpeedLimit >= 0
    THEN BytesPerSecInt(nodeSpeedLimit)
    ELSE BytesPerSecFloat(defaultSpeedLimit)

calculateSpeedLimit(nodeSpeedLimit, defaultSpeedLimit) ==
    IF nodeSpeedLimit > 0
    THEN BytesPerSecInt(nodeSpeedLimit)
    ELSE BytesPerSecFloat(defaultSpeedLimit)

\* ParseAirGoNodeInfo, the speedLimit local
NodeSpeedLimitOf(cl, d) ==
    IF d.NodeSpeedLimit > 0
    THEN BytesPerSecInt(d.NodeSpeedLimit)
    ELSE BytesPerSecFloat(cl.SpeedLimit)

EnableTLSOf_OnlyTLS(d) == d.Security \notin {"none", "", "reality"}

\* ParseAirGoNodeInfo, the enableTLS local: starts true
EnableTLSOf(d) == ~(d.Security = "none" \/ d.Security = "")

\* ParseAirGoNodeInfo, the enableREALITY local: starts false
EnableREALITYOf(d) == d.Security = "reality"

\* ParseAirGoNodeInfo, the realityConfig local: never nil
RealityConfigOf(d) ==
    IF d.Security = "reality"
    THEN [ZeroREALITYConfig EXCEPT
             !.Dest = d.Dest,
             !.ServerNames = <<d.Sni>>,
             !.PrivateKey = d.PrivateKey,
             !.ShortIds = <<"", "0123456789abcdef">>]
    ELSE ZeroREALITYConfig

\* json.Marshal of the camouflage map: its content, as a non-nil blob
HeaderBlob(d) ==
    <<[type |-> "http",
       request |-> [path |-> <<d.Path>>, headers |-> [Host |-> <<d.Host>>]]]>>

TransportHeader_AnyNetwork(d) == IF d.Type = "http" THEN HeaderBlob(d) ELSE <<>>

\* the inner switch on n.Network of the vless and vmess cases
TransportHeader(d) ==
    CASE d.Network = "grpc" -> <<>>
      [] d.Network = "ws" -> <<>>
      [] d.Network = "tcp" -> IF d.Type = "http" THEN HeaderBlob(d) ELSE <<>>
      [] OTHER -> <<>>

VlessNodeInfo(cl, d) ==
    [ZeroNodeInfo EXCEPT
        !.EnableVless = TRUE,
        !.VlessFlow = d.VlessFlow,
        !.NodeType = cl.NodeType,
        !.NodeID = cl.NodeID,
        !.Port = d.Port,
        !.SpeedLimit = NodeSpeedLimitOf(cl, d),
        !.TransportProtocol = d.Network,
        !.EnableTLS = EnableTLSOf(d),
        !.Path = d.Path,
        !.Host = d.Host,
        !.ServiceName = d.ServiceName,
        !.EnableREALITY = EnableREALITYOf(d),
        !.REALITYConfig = <<RealityConfigOf(d)>>,
        !.Header = TransportHeader(d)]

VmessNodeInfo(cl, d) ==
    [ZeroNodeInfo EXCEPT
        !.EnableVless = FALSE,
        !.NodeType = cl.NodeType,
        !.NodeID = cl.NodeID,
        !.Port = d.Port,
        !.SpeedLimit = NodeSpeedLimitOf(cl, d),
        !.AlterID = 0,
        !.TransportProtocol = d.Network,
        !.EnableTLS = EnableTLSOf(d),
        !.Path = d.Path,
        !.Host = d.Host,
        !.CypherMethod = d.Scy,
        !.ServiceName = d.ServiceName,
        !.EnableREALITY = EnableREALITYOf(d),
        !.Header = TransportHeader(d)]

ShadowsocksNodeInfo(cl, d) ==
    [ZeroNodeInfo EXCEPT
        !.NodeType = cl.NodeType,
        !.NodeID = cl.NodeID,
        !.Port = d.Port,
        !.SpeedLimit = NodeSpeedLimitOf(cl, d),
        !.TransportProtocol = "tcp",
        !.CypherMethod = d.Scy,
        !.ServerKey = d.ServerKey,
        !.Header = IF d.Type = "http" THEN HeaderBlob(d) ELSE <<>>]

ProtocolCase_AnyCase(protocol) ==
    CASE protocol \in {"vless", "Vless", "VLESS"} -> "vless"
      [] protocol \in {"vmess", "Vmess", "VMESS"} -> "vmess"
      [] protocol \in {"Shadowsocks", "shadowsocks", "SHADOWSOCKS"} -> "shadowsocks"
      [] OTHER -> "default"

ProtocolCase_LowerOnly(protocol) ==
    CASE protocol = "vless" -> "vless"
      [] protocol = "vmess" -> "vmess"
      [] protocol = "shadowsocks" -> "shadowsocks"
      [] OTHER -> "default"

\* the outer switch on n.Protocol: which case a protocol string selects
ProtocolCase(protocol) ==
    CASE protocol \in {"vless", "Vless"} -> "vless"
      [] protocol \in {"vmess", "Vmess"} -> "vmess"
      [] protocol \in {"Shadowsocks", "shadowsocks"} -> "shadowsocks"
      [] OTHER -> "default"

\* ParseAirGoNodeInfo returns (&nodeInfo, nil) on every path
ParseAirGoNodeInfo(cl, d) ==
    LET shape == ProtocolCase(d.Protocol)
        nodeInfo ==
            CASE shape = "vless" -> VlessNodeInfo(cl, d)
              [] shape = "vmess" -> VmessNodeInfo(cl, d)
              [] shape = "shadowsocks" -> ShadowsocksNodeInfo(cl, d)
              [] OTHER -> ZeroNodeInfo
    IN  [val |-> <<nodeInfo>>, err |-> ""]

\* GetUserList, the body of the loop over userResponse
UserInfoOf(cl, v) ==
    [UID |-> v.ID, UUID |-> v.UUID, Email |-> v.UserName, Passwd |-> v.Passwd,
     SpeedLimit |-> calculateSpeedLimit(v.NodeSpeedLimit, cl.SpeedLimit),
     DeviceLimit |-> v.NodeConnector]

-----------------------------------------------------------------------------
(* Reporting encoder *)

AppendObservation_Dedup(m, v) ==
    IF v.UID \in DOMAIN m
    THEN IF \E i \in 1 .. Len(m[v.UID]) : m[v.UID][i] = v.IP
         THEN m
         ELSE [m EXCEPT ![v.UID] = Append(@, v.IP)]
    ELSE [u \in DOMAIN m \cup {v.UID} |->
             IF u = v.UID THEN <<v.IP>> ELSE m[u]]

\* one iteration of the loop of ReportNodeOnlineUsers:
\* m[v.UID] = append(m[v.UID], v.IP)
AppendObservation(m, v) ==
    IF v.UID \in DOMAIN m
    THEN [m EXCEPT ![v.UID] = Append(@, v.IP)]
    ELSE [u \in DOMAIN m \cup {v.UID} |->
             IF u = v.UID THEN <<v.IP>> ELSE m[u]]

RECURSIVE GroupFrom(_, _)
\* the loop of ReportNodeOnlineUsers, from the map m over the list
GroupFrom(m, list) ==
    IF list = <<>>
    THEN m
    ELSE GroupFrom(AppendObservation(m, Head(list)), Tail(list))

\* make(map[int][]string)
EmptyMap == [u \in {} |-> <<>>]

\* postRequest: the error it returns for a response r
postRequest(r) ==
    IF r.err THEN "transport"
    ELSE IF r.status # StatusOK THEN "status"
    ELSE ""

-----------------------------------------------------------------------------
(* Responses of the transport *)

Response(err, status, etag, body) ==
    [err |-> err, status |-> status, etag |-> etag, body |-> body]

\* a request that failed in the transport: no status, no headers, no body
TransportFailure == Response(TRUE, 0, "", <<>>)

\* a GET that failed in the transport: before any response arrived, or after
\* its status and headers arrived, while its body was read
GetFailures ==
    {TransportFailure} \cup {Response(TRUE, StatusOK, e, <<>>) : e \in ETagValues}

Statuses == {StatusOK, StatusNotModified, 500}

User(id, limit) ==
    [ID |-> id, UUID |-> "uuid", UserName |-> "user", Passwd |-> "pw",
     NodeSpeedLimit |-> limit, NodeConnector |-> 2]

SeqsUpTo(S, k) == UNION {[1 .. m -> S] : m \in 0 .. k}

SampleDescriptor == Descriptor("vless", "reality", "tcp", "http", 0, TRUE)
SampleUsers == <<User(1, 0), User(2, 100)>>

\* a body is <<>> when json.Unmarshal rejects it, else <<the decoded value>>
NodeBodies == {<<>>, <<SampleDescriptor>>}
UserBodies == {<<>>, << <<>> >>, <<SampleUsers>>}

NodeResponses ==
    GetFailures \cup
    {Response(FALSE, s, e, b) : s \in Statuses, e \in ETagValues, b \in NodeBodies}

UserResponses ==
    GetFailures \cup
    {Response(FALSE, s, e, b) : s \in Statuses, e \in ETagValues, b \in UserBodies}

PostResponses == {TransportFailure} \cup
                 {Response(FALSE, s, "", <<>>) : s \in {StatusOK, 500}}

-----------------------------------------------------------------------------
(* Operations of the client *)

\* GetNodeInfo, having received r; the transport's err is not examined
GetNodeInfoCall(r) ==
    /\ op' = "GetNodeInfo"
    /\ res' = r
    /\ IF r.status = StatusNotModified
       THEN /\ eTags' = eTags
            /\ ret' = [val |-> <<>>, err |-> NodeNotModified]
       ELSE /\ eTags' = updateETag(eTags, r, "node")
            /\ ret' = IF r.body = <<>>
                      THEN [val |-> <<>>, err |-> "unmarshal"]
                      ELSE ParseAirGoNodeInfo(c, r.body[1])
    /\ UNCHANGED <<c, n, onlineUserList, sent>>

\* GetUserList, having received r
GetUserListCall(r) ==
    /\ op' = "GetUserList"
    /\ res' = r
    /\ IF r.err
       THEN /\ eTags' = eTags
            /\ ret' = [val |-> <<>>, err |-> "transport"]
       ELSE IF r.status = StatusNotModified
       THEN /\ eTags' = eTags
            /\ ret' = [val |-> <<>>, err |-> UserNotModified]
       ELSE /\ eTags' = updateETag(eTags, r, "userlist")
            /\ ret' = IF r.body = <<>>
                      THEN [val |-> <<>>, err |-> "unmarshal"]
                      ELSE [val |-> <<[i \in 1 .. Len(r.body[1]) |->
                                          UserInfoOf(c, r.body[1][i])]>>,
                            err |-> ""]
    /\ UNCHANGED <<c, n, onlineUserList, sent>>

\* ReportNodeOnlineUsers(onlineUserList), postRequest having received r
ReportNodeOnlineUsersCall(r) ==
    /\ op' = "ReportNodeOnlineUsers"
    /\ res' = r
    /\ sent' = <<[NodeID |-> c.NodeID,
                  UserNodeMap |-> GroupFrom(EmptyMap, onlineUserList)]>>
    /\ ret' = [val |-> <<>>, err |-> postRequest(r)]
    /\ UNCHANGED <<c, eTags, n, onlineUserList>>

Failures == {"transport", "unmarshal", "parse"}

-----------------------------------------------------------------------------
(* The client session against an arbitrary transport *)

Init ==
    /\ c = Client("V2ray", 1, Float(50, 0))
    /\ eTags = [k \in Keys |-> ""]
    /\ op = "none"
    /\ res = NoRes
    /\ ret = NoRet
    /\ n = SampleDescriptor
    /\ onlineUserList = <<>>
    /\ sent = <<>>
    /\ panel = [k \in Keys |-> "W/a"]
    /\ fetched = [k \in Keys |-> 0]

GetNodeInfo ==
    \E r \in NodeResponses : GetNodeInfoCall(r) /\ UNCHANGED <<panel, fetched>>

GetUserList ==
    \E r \in UserResponses : GetUserListCall(r) /\ UNCHANGED <<panel, fetched>>

Next == GetNodeInfo \/ GetUserList

Spec == Init /\ [][Next]_vars

-----------------------------------------------------------------------------
(* The client session against a panel that honours If-None-Match *)

PanelETags == ETagValues \ {""}

\* the value the panel serves for a resource
PanelBody(key) ==
    IF key = "node" THEN <<SampleDescriptor>> ELSE <<SampleUsers>>

\* 304 exactly when If-None-Match equals the current ETag, else 200 with it
PanelAnswer(key, inm) ==
    IF inm = panel[key]
    THEN Response(FALSE, StatusNotModified, panel[key], <<>>)
    ELSE Response(FALSE, StatusOK, panel[key], PanelBody(key))

InitPanel ==
    /\ c = Client("V2ray", 1, Float(50, 0))
    /\ eTags = [k \in Keys |-> ""]
    /\ op = "none"
    /\ res = NoRes
    /\ ret = NoRet
    /\ n = SampleDescriptor
    /\ onlineUserList = <<>>
    /\ sent = <<>>
    /\ panel \in [Keys -> PanelETags]
    /\ fetched = [k \in Keys |-> 0]

PanelGetNodeInfo ==
    /\ GetNodeInfoCall(PanelAnswer("node", IfNoneMatch(eTags, "node")))
    /\ fetched' = [fetched EXCEPT !["node"] = IF @ < 2 THEN @ + 1 ELSE @]
    /\ UNCHANGED panel

PanelGetUserList ==
    /\ GetUserListCall(PanelAnswer("userlist", IfNoneMatch(eTags, "userlist")))
    /\ fetched' = [fetched EXCEPT !["userlist"] = IF @ < 2 THEN @ + 1 ELSE @]
    /\ UNCHANGED panel

\* the panel's data for a resource changes, and its ETag with it
UpstreamChange ==
    \E k \in Keys : \E e \in PanelETags \ {panel[k]} :
        /\ panel' = [panel EXCEPT ![k] = e]
        /\ fetched' = [fetched EXCEPT ![k] = 0]
        /\ UNCHANGED <<c, eTags, op, res, ret, n, onlineUserList, sent>>

NextPanel == PanelGetNodeInfo \/ PanelGetUserList \/ UpstreamChange

SpecPanel == InitPanel /\ [][NextPanel]_vars

-----------------------------------------------------------------------------
(* ParseAirGoNodeInfo over all descriptors and clients *)

InitParse ==
    /\ c \in Clients
    /\ n \in Descriptors
    /\ eTags = [k \in Keys |-> ""]
    /\ op = "none"
    /\ res = NoRes
    /\ ret = NoRet
    /\ onlineUserList = <<>>
    /\ sent = <<>>
    /\ panel = [k \in Keys |-> "W/a"]
    /\ fetched = [k \in Keys |-> 0]

ParseStep ==
    /\ op' = "ParseAirGoNodeInfo"
    /\ ret' = ParseAirGoNodeInfo(c, n)
    /\ UNCHANGED <<c, eTags, res, n, onlineUserList, sent, panel, fetched>>

SpecParse == InitParse /\ [][ParseStep]_vars

-----------------------------------------------------------------------------
(* Speed-limit resolution, for the node and for the users *)

SpeedDescriptors ==
    {Descriptor(p, "tls", "tcp", "none", l, TRUE) :
        p \in {"vless", "vmess", "shadowsocks", "trojan"}, l \in Limits}

SpeedUserResponses ==
    {Response(FALSE, StatusOK, "", <<us>>) :
        us \in SeqsUpTo({User(1, l) : l \in Limits}, MaxUsers)}

InitSpeed ==
    /\ c \in {Client("V2ray", 1, d) : d \in Defaults}
    /\ n \in SpeedDescriptors
    /\ eTags = [k \in Keys |-> ""]
    /\ op = "none"
    /\ res = NoRes
    /\ ret = NoRet
    /\ onlineUserList = <<>>
    /\ sent = <<>>
    /\ panel = [k \in Keys |-> "W/a"]
    /\ fetched = [k \in Keys |-> 0]

SpeedGetUserList ==
    \E r \in SpeedUserResponses :
        GetUserListCall(r) /\ UNCHANGED <<panel, fetched>>

NextSpeed == ParseStep \/ SpeedGetUserList

SpecSpeed == InitSpeed /\ [][NextSpeed]_vars

-----------------------------------------------------------------------------
(* ReportNodeOnlineUsers over all observation lists *)

Observation(uid, ip) == [UID |-> uid, IP |-> ip]

Observations ==
    {Observation(u, ip) : u \in {1, 2}, ip \in {"1.1.1.1", "2.2.2.2"}}

InitOnline ==
    /\ c = Client("V2ray", 1, Float(50, 0))
    /\ onlineUserList \in SeqsUpTo(Observations, MaxObs)
    /\ eTags = [k \in Keys |-> ""]
    /\ op = "none"
    /\ res = NoRes
    /\ ret = NoRet
    /\ n = SampleDescriptor
    /\ sent = <<>>
    /\ panel = [k \in Keys |-> "W/a"]
    /\ fetched = [k \in Keys |-> 0]

ReportNodeOnlineUsers ==
    \E r \in PostResponses :
        ReportNodeOnlineUsersCall(r) /\ UNCHANGED <<panel, fetched>>

SpecOnline == InitOnline /\ [][ReportNodeOnlineUsers]_vars

-----------------------------------------------------------------------------
(* Properties of the conditional-fetch cache *)

FetchOf(k) == IF k = "node" THEN "GetNodeInfo" ELSE "GetUserList"

\* C1: the token stored for a resource changes only in a fetch of that
\* resource whose response is not a 304 and carries an ETag that is non-empty
\* and different from the stored one, and it becomes that ETag; any other
\* response leaves the token table as it was.
C1_TokenChangesOnlyOnNewETag ==
    [][\A k \in Keys :
          eTags'[k] # eTags[k] =>
              /\ op' = FetchOf(k)
              /\ res'.status # StatusNotModified
              /\ res'.etag # ""
              /\ res'.etag # eTags[k]
              /\ eTags'[k] = res'.etag]_vars

\* a fetch has replaced a stored token by the new one of a 200 response
C1_Witness ==
    /\ op = "GetNodeInfo"
    /\ res.status = StatusOK
    /\ res.etag = "W/b"
    /\ eTags["node"] = "W/b"
    /\ eTags["userlist"] = "W/a"

\* C2: against a panel that answers 304 exactly when If-None-Match equals its
\* ETag, a fetch of a resource that follows another fetch of it with no
\* upstream change in between returns the "not modified" sentinel and leaves
\* the token table as it was.
C2_SecondFetchNotModified ==
    [][/\ (fetched["node"] >= 1 /\ PanelGetNodeInfo) =>
              (ret'.err = NodeNotModified /\ ret'.val = <<>> /\ eTags' = eTags)
       /\ (fetched["userlist"] >= 1 /\ PanelGetUserList) =>
              (ret'.err = UserNotModified /\ ret'.val = <<>> /\ eTags' = eTags)
      ]_vars

\* the second of two fetches of the user list has returned "not modified"
C2_Witness ==
    /\ fetched["userlist"] = 2
    /\ op = "GetUserList"
    /\ res.status = StatusNotModified
    /\ ret.err = UserNotModified
    /\ eTags["userlist"] = panel["userlist"]

\* C10: a fetch that returns a failure (transport or decode) to its caller
\* leaves the token table as it was.
C10_FailedFetchKeepsTokens ==
    [][ret'.err \in Failures => eTags' = eTags]_vars

-----------------------------------------------------------------------------
(* Properties of ParseAirGoNodeInfo *)

Parsed == op = "ParseAirGoNodeInfo" /\ Len(ret.val) = 1
Out == ret.val[1]

VlessNames == {"vless", "Vless"}
VmessNames == {"vmess", "Vmess"}
ShadowsocksNames == {"shadowsocks", "Shadowsocks"}
KnownNames == VlessNames \cup VmessNames \cup ShadowsocksNames

\* C3, as claimed: EnableTLS and EnableREALITY are never both true in a
\* configuration ParseAirGoNodeInfo returns.
C3_TLSXorREALITY == Parsed => ~(Out.EnableTLS /\ Out.EnableREALITY)

\* C3, amended: EnableTLS and EnableREALITY are both true exactly when the
\* security is "reality" and the protocol is vless or vmess; EnableREALITY is
\* never true without EnableTLS.
C3_BothOnlyForReality ==
    Parsed =>
        /\ (Out.EnableTLS /\ Out.EnableREALITY) <=>
               (n.Security = "reality" /\ n.Protocol \in VlessNames \cup VmessNames)
        /\ Out.EnableREALITY => Out.EnableTLS

\* a vless descriptor with security "reality" has been translated
C3_Witness ==
    /\ Parsed
    /\ n.Protocol = "vless"
    /\ n.Security = "reality"
    /\ Out.EnableTLS
    /\ Out.EnableREALITY

\* C4: for vless and vmess, security "reality" gives EnableREALITY and a
\* REALITYConfig with ServerNames = [sni] and ShortIds = ["", "0123456789abcdef"];
\* security "none" or "" gives EnableTLS and EnableREALITY both false.
C4_SecurityModes ==
    (Parsed /\ n.Protocol \in VlessNames \cup VmessNames) =>
        /\ n.Security = "reality" =>
               /\ Out.EnableREALITY
               /\ Len(Out.REALITYConfig) = 1
               /\ Out.REALITYConfig[1].ServerNames = <<n.Sni>>
               /\ Out.REALITYConfig[1].ShortIds = <<"", "0123456789abcdef">>
        /\ n.Security \in {"none", ""} =>
               (~Out.EnableTLS /\ ~Out.EnableREALITY)

\* what C5 says of the shape selected by each protocol string
C5_Shape ==
    /\ ret.err = ""
    /\ n.Protocol \in VlessNames =>
           /\ Out.EnableVless
           /\ Out.VlessFlow = n.VlessFlow
           /\ Out.TransportProtocol = n.Network
    /\ n.Protocol \in VmessNames =>
           /\ ~Out.EnableVless
           /\ Out.AlterID = 0
           /\ Out.CypherMethod = n.Scy
           /\ Out.TransportProtocol = n.Network
    /\ n.Protocol \in ShadowsocksNames =>
           /\ Out.TransportProtocol = "tcp"
           /\ Out.CypherMethod = n.Scy
           /\ Out.ServerKey = n.ServerKey
           /\ ~Out.EnableTLS
           /\ ~Out.EnableREALITY
           /\ Out.REALITYConfig = <<>>
    /\ n.Protocol \notin KnownNames => Out = ZeroNodeInfo

\* C5, as claimed: no error; each of the six protocol spellings gives a
\* non-zero configuration of its shape; any other string gives the zero value.
C5_DispatchNonZero ==
    Parsed => (C5_Shape /\ (n.Protocol \in KnownNames => Out # ZeroNodeInfo))

\* every field the vmess case copies is zero
VmessAllZero ==
    /\ c.NodeType = ""
    /\ c.NodeID = 0
    /\ n.Port = 0
    /\ Out.SpeedLimit = 0
    /\ n.Network = ""
    /\ n.Security \in {"none", ""}
    /\ n.Path = ""
    /\ n.Host = ""
    /\ n.Scy = ""
    /\ n.ServiceName = ""

\* C5, amended: no error; each spelling gives the configuration of its shape,
\* non-zero for vless and shadowsocks, and for vmess equal to the zero value
\* exactly when every field the vmess case copies is zero; any other string
\* gives the zero value.
C5_Dispatch ==
    Parsed =>
        /\ C5_Shape
        /\ n.Protocol \in VlessNames \cup ShadowsocksNames => Out # ZeroNodeInfo
        /\ n.Protocol \in VmessNames => (Out = ZeroNodeInfo <=> VmessAllZero)

\* a shadowsocks descriptor with network "ws" and security "reality" has been
\* translated to a tcp configuration without REALITY
C5_Witness ==
    /\ Parsed
    /\ n.Protocol = "Shadowsocks"
    /\ n.Network = "ws"
    /\ n.Security = "reality"
    /\ Out.TransportProtocol = "tcp"
    /\ Out.REALITYConfig = <<>>

\* the lower-case form of a protocol string of the model
Lower(protocol) ==
    CASE protocol \in {"vless", "Vless", "VLESS"} -> "vless"
      [] protocol \in {"vmess", "Vmess", "VMESS"} -> "vmess"
      [] protocol \in {"shadowsocks", "Shadowsocks", "SHADOWSOCKS"} -> "shadowsocks"
      [] OTHER -> protocol

\* the descriptor n with another protocol string
WithProtocol(p) == [n EXCEPT !.Protocol = p]

\* C6, as claimed: two protocol strings that differ only in letter case give
\* the same result for an otherwise identical descriptor.
C6_CaseInsensitive ==
    Parsed =>
        \A p \in Protocols :
            Lower(p) = Lower(n.Protocol) =>
                ParseAirGoNodeInfo(c, WithProtocol(p)) = ret

\* C6, amended: the protocol is compared exactly against the six spellings:
\* the lower-case and the capitalised spelling of a protocol give the same
\* result, and every other casing gives the zero value.
C6_TwoSpellings ==
    Parsed =>
        /\ \A p \in KnownNames :
               (n.Protocol \in KnownNames /\ Lower(p) = Lower(n.Protocol)) =>
                   ParseAirGoNodeInfo(c, WithProtocol(p)) = ret
        /\ n.Protocol \notin KnownNames => Out = ZeroNodeInfo

\* a descriptor with protocol "Vless" has been translated to a vless shape
C6_Witness ==
    /\ Parsed
    /\ n.Protocol = "Vless"
    /\ Out.EnableVless
    /\ Out.TransportProtocol = n.Network

\* C7, as claimed: the header is set exactly when the transport is "tcp" and
\* the camouflage type is "http", and it is absent for a descriptor whose
\* network is "grpc" or "ws", whatever the type and the protocol.
C7_HeaderIffTcpHttp ==
    Parsed =>
        /\ Out.Header # <<>> <=> (Out.TransportProtocol = "tcp" /\ n.Type = "http")
        /\ n.Network \in {"grpc", "ws"} => Out.Header = <<>>

\* C7, amended: the header is set exactly when the output's transport is
\* "tcp" and the camouflage type is "http"; for a descriptor whose network is
\* "grpc" or "ws" it is absent for vless and vmess, while shadowsocks, whose
\* transport is always "tcp", sets it whenever the type is "http".
C7_HeaderIffOutputTcpHttp ==
    Parsed =>
        /\ Out.Header # <<>> <=> (Out.TransportProtocol = "tcp" /\ n.Type = "http")
        /\ (n.Network \in {"grpc", "ws"} /\ n.Protocol \notin ShadowsocksNames) =>
               Out.Header = <<>>
        /\ n.Protocol \in ShadowsocksNames =>
               (Out.Header # <<>> <=> n.Type = "http")
        /\ Out.Header # <<>> => Out.Header = HeaderBlob(n)

\* a shadowsocks descriptor with network "ws" and type "http" has been
\* translated, and carries a header
C7_Witness ==
    /\ Parsed
    /\ n.Protocol = "shadowsocks"
    /\ n.Network = "ws"
    /\ n.Type = "http"
    /\ Out.Header # <<>>

-----------------------------------------------------------------------------
(* Speed-limit resolution *)

\* floor(L * 10^6 / 8) for L > 0, else floor(D * 10^6 / 8)
ResolvedLimit(L, D) ==
    IF L > 0 THEN L * 125000 ELSE D.whole * 125000 + D.micro \div 8

\* C8: the SpeedLimit of the node, for a protocol ParseAirGoNodeInfo
\* recognises, and the SpeedLimit of every user are the resolved limit of the
\* override and the session default.
C8_SpeedLimit ==
    /\ (Parsed /\ n.Protocol \in KnownNames) =>
           Out.SpeedLimit = ResolvedLimit(n.NodeSpeedLimit, c.SpeedLimit)
    /\ (op = "GetUserList" /\ ret.err = "") =>
           /\ Len(ret.val[1]) = Len(res.body[1])
           /\ \A i \in 1 .. Len(ret.val[1]) :
                  ret.val[1][i].SpeedLimit =
                      ResolvedLimit(res.body[1][i].NodeSpeedLimit, c.SpeedLimit)

\* with default 50, users with overrides 0 and 100 have been mapped
C8_Witness ==
    /\ op = "GetUserList"
    /\ c.SpeedLimit = Float(50, 0)
    /\ res.body = << <<User(1, 0), User(1, 100)>> >>
    /\ ret.val[1][1].SpeedLimit = 6250000
    /\ ret.val[1][2].SpeedLimit = 12500000

-----------------------------------------------------------------------------
(* Online-user grouping *)

\* the IPs observed for user u, in input order
IPsOf(u) ==
    LET own == SelectSeq(onlineUserList, LAMBDA o : o.UID = u)
    IN  [i \in 1 .. Len(own) |-> own[i].IP]

RECURSIVE TotalIPs(_, _)
TotalIPs(m, uids) ==
    IF uids = {}
    THEN 0
    ELSE LET u == CHOOSE x \in uids : TRUE
         IN  Len(m[u]) + TotalIPs(m, uids \ {u})

\* C9: the mapping sent has exactly the observed user ids as keys, maps each
\* to its IPs in input order with duplicates kept, and holds as many IPs as
\* there are observations.
C9_Grouping ==
    op = "ReportNodeOnlineUsers" =>
        LET m == sent[1].UserNodeMap
        IN  /\ DOMAIN m = {onlineUserList[i].UID : i \in 1 .. Len(onlineUserList)}
            /\ \A u \in DOMAIN m : m[u] = IPsOf(u)
            /\ TotalIPs(m, DOMAIN m) = Len(onlineUserList)

\* the observations (1, 1.1.1.1), (1, 1.1.1.1), (2, 2.2.2.2) have been sent
C9_Witness ==
    /\ op = "ReportNodeOnlineUsers"
    /\ onlineUserList = <<Observation(1, "1.1.1.1"), Observation(1, "1.1.1.1"),
                          Observation(2, "2.2.2.2")>>
    /\ sent[1].UserNodeMap[1] = <<"1.1.1.1", "1.1.1.1">>
    /\ sent[1].UserNodeMap[2] = <<"2.2.2.2">>

=============================================================================
